---- MODULE Spec2Model ----
(***************************************************************************)
(* Model of package page (src/page/page.go): template discovery            *)
(* (find, addTemplate, LoadLayoutsAndPartials), the cache-or-build         *)
(* resolution (buildTemplate, buildTemplateFromDisk) and the callers that  *)
(* run it concurrently, one goroutine per request (src/main.go).           *)
(*                                                                         *)
(* A Go string is a sequence of one-character strings, so that             *)
(* strings.Contains, filepath.Ext and path.Join are computed on the        *)
(* characters, as the library computes them.                               *)
(***************************************************************************)
EXTENDS Integers, Sequences, FiniteSets, TLC

(***************************************************************************)
(* Bounds of the model.                                                    *)
(***************************************************************************)
\* Number of request goroutines that can be inside a call at the same time.
NumCallers == 2
\* Number of operations begun in a run: calls of Show, String, GetTemplate
\* and LoadLayoutsAndPartials (that of main.go, line 30, included), and
\* changes made by the application or the environment to UseCache and to
\* the directory.
MaxOps == 4

(***************************************************************************)
(* Strings.                                                                *)
(***************************************************************************)
S_tmpl == <<"t","m","p","l">>
S_layout == <<"l","a","y","o","u","t">>
S_partial == <<"p","a","r","t","i","a","l">>
S_page == <<"p","a","g","e">>
Dot == <<".">>
Slash == <<"/">>

\* ".tmpl", the extension addTemplate asks find for.
TmplExt == Dot \o S_tmpl

\* The entries of the template directory, by base name.
F_aPartial == <<"a">> \o Dot \o S_partial \o TmplExt
F_about == <<"a","b","o","u","t">> \o Dot \o S_page \o TmplExt
F_bLayout == <<"b">> \o Dot \o S_layout \o TmplExt
F_cPage == <<"c">> \o Dot \o S_page \o TmplExt
D_inc == <<"i","n","c">>
F_ePartial == <<"e">> \o Dot \o S_partial \o TmplExt

\* strings.Contains(s, sub)
Contains(s, sub) ==
    \E i \in 0..(Len(s) - Len(sub)) : SubSeq(s, i + 1, i + Len(sub)) = sub

\* Index of the last "." of name after the last "/", or 0.
LastDot(name) ==
    LET dots == {i \in 1..Len(name) :
                    /\ name[i] = "."
                    /\ \A j \in i..Len(name) : name[j] # "/"}
    IN IF dots = {} THEN 0
       ELSE CHOOSE i \in dots : \A j \in dots : j <= i

\* filepath.Ext(name): the suffix beginning at the final dot of the last
\* element of name, empty if there is no dot.
Ext(name) ==
    IF LastDot(name) = 0 THEN <<>> ELSE SubSeq(name, LastDot(name), Len(name))

\* The elements of p between slashes, in order (empty elements included).
RECURSIVE Split(_)
Split(p) ==
    IF \A i \in 1..Len(p) : p[i] # "/" THEN <<p>>
    ELSE LET k == CHOOSE i \in 1..Len(p) :
                      p[i] = "/" /\ \A j \in 1..(i - 1) : p[j] # "/"
         IN <<SubSeq(p, 1, k - 1)>> \o Split(SubSeq(p, k + 1, Len(p)))

\* path.Clean on the elements of a relative path: "" and "." are dropped,
\* ".." removes the element before it (and is kept when there is none).
RECURSIVE CleanElems(_, _)
CleanElems(done, rest) ==
    IF rest = <<>> THEN done
    ELSE LET e == Head(rest)
         IN IF e = <<>> \/ e = Dot THEN CleanElems(done, Tail(rest))
            ELSE IF e = <<".", ".">>
                    /\ done # <<>> /\ done[Len(done)] # <<".", ".">>
                 THEN CleanElems(SubSeq(done, 1, Len(done) - 1), Tail(rest))
                 ELSE CleanElems(Append(done, e), Tail(rest))

RECURSIVE JoinElems(_)
JoinElems(es) ==
    IF es = <<>> THEN <<>>
    ELSE IF Len(es) = 1 THEN es[1]
    ELSE es[1] \o Slash \o JoinElems(Tail(es))

\* path.Clean(p) for a relative path p.
Clean(p) ==
    LET es == CleanElems(<<>>, Split(p))
    IN IF es = <<>> THEN Dot ELSE JoinElems(es)

\* path.Join(dir, name) (filepath.Join on this platform): empty elements
\* are ignored, the rest joined by "/" and cleaned.
Join(dir, name) ==
    IF dir = <<>> /\ name = <<>> THEN <<>>
    ELSE IF dir = <<>> THEN Clean(name)
    ELSE IF name = <<>> THEN Clean(dir)
    ELSE Clean(dir \o Slash \o name)

\* path.Base for a clean relative path: its last element.
Base(p) == LET es == Split(p) IN es[Len(es)]

(***************************************************************************)
(* The template directory.  Tree lists what the directory can hold, in the *)
(* order filepath.WalkDir visits it (lexical within a directory, depth     *)
(* first); rel is the path below the root, parent the index of the         *)
(* enclosing directory (0: the root).                                      *)
(***************************************************************************)
Tree ==
    << [rel |-> F_aPartial, kind |-> "file", parent |-> 0],
       [rel |-> F_about, kind |-> "file", parent |-> 0],
       [rel |-> F_bLayout, kind |-> "file", parent |-> 0],
       [rel |-> F_cPage, kind |-> "file", parent |-> 0],
       [rel |-> D_inc, kind |-> "dir", parent |-> 0],
       [rel |-> D_inc \o Slash \o F_ePartial, kind |-> "file", parent |-> 5] >>

\* "ok": a file that parses, a directory that can be read; "bad": a file
\* with a syntax error, a directory that cannot be read; "gone": absent.
Status == {"ok", "bad", "gone"}

\* Directory names the caller may configure as TemplateDir.
D_tpl == <<"t","p","l">>
D_partials == S_partial \o <<"s">>
TemplateDirs == {D_tpl, D_partials, Dot \o Slash \o D_tpl}

\* Marker lists the caller may pass to LoadLayoutsAndPartials.
MarkerLists ==
    { <<Dot \o S_layout, Dot \o S_partial>>,
      <<S_layout, S_partial>>,
      <<S_partial, Dot \o S_partial>>,
      <<Dot \o S_layout>> }

\* Template names the callers resolve.
Names == {F_about, F_cPage}

\* path.Join(d, x) for every directory d and every name or entry x of the
\* model, computed once.
JoinedPath ==
    [d \in TemplateDirs |->
        [x \in Names \cup {Tree[i].rel : i \in 1..Len(Tree)} |-> Join(d, x)]]

\* A state of the directory gives a status to the root (index 0) and to
\* every entry of Tree.
\* Entry i is reached by the walk: it exists and so does every directory
\* above it, each of them readable.
RECURSIVE Reached(_, _)
Reached(d, i) ==
    /\ d[i] # "gone"
    /\ d[Tree[i].parent] = "ok"
    /\ Tree[i].parent = 0 \/ Reached(d, Tree[i].parent)

\* The walk fails: the root is missing or unreadable, or a directory it reaches cannot
\* be read.
WalkFails(d) ==
    \/ d[0] # "ok"
    \/ \E i \in 1..Len(Tree) :
          Tree[i].kind = "dir" /\ Reached(d, i) /\ d[i] = "bad"

\* The paths of the reached entries i..Len(Tree) whose name has extension
\* ext, in walk order.
RECURSIVE WalkFrom(_, _, _, _)
WalkFrom(root, d, ext, i) ==
    IF i > Len(Tree) THEN <<>>
    ELSE (IF Reached(d, i) /\ Ext(Base(Tree[i].rel)) = ext
          THEN <<JoinedPath[root][Tree[i].rel]>> ELSE <<>>)
         \o WalkFrom(root, d, ext, i + 1)

\* find(root, ext): the walk visits the root itself first, under the path
\* it was given, then the entries below it.
find(root, d, ext) ==
    IF WalkFails(d) THEN [err |-> TRUE, files |-> <<>>]
    ELSE [err |-> FALSE,
          files |-> (IF Ext(Base(Clean(root))) = ext THEN <<root>> ELSE <<>>)
                    \o WalkFrom(root, d, ext, 1)]

\* The elements of files that contain fileType, in order.
RECURSIVE Filter(_, _)
Filter(files, fileType) ==
    IF files = <<>> THEN <<>>
    ELSE (IF Contains(Head(files), fileType) THEN <<Head(files)>> ELSE <<>>)
         \o Filter(Tail(files), fileType)

\* addTemplate(path, fileType)
addTemplate(path, d, fileType) ==
    LET r == find(path, d, TmplExt)
    IN IF r.err THEN [err |-> TRUE, files |-> <<>>]
       ELSE [err |-> FALSE, files |-> Filter(r.files, fileType)]

\* A slice of strings as the program holds it: the array its header points
\* to (its elements; none for the nil slice) and the length in its header.
\* The two are separate words, which a store writes one after the other.
Header(list) == [arr |-> list, len |-> Len(list)]

\* The header is that of a list: its length is that of its array.
Whole(h) == h.len = Len(h.arr)

\* The elements a read of h gives when its length is within its array.
Elements(h) == SubSeq(h.arr, 1, h.len)

(***************************************************************************)
(* The state.                                                              *)
(***************************************************************************)
Callers == 1..NumCallers
Ops == {"Show", "String", "GetTemplate"}

\* The nil *template.Template.
Nil == [name |-> <<>>, files |-> <<>>, id |-> 0]

(***************************************************************************)
(* Execution of a page template.  The text of a page file is a sequence of *)
(* characters and actions; the only action is {{.Data.payload}}.           *)
(***************************************************************************)
Action == "{{.Data.payload}}"
S_Hello == <<"H","e","l","l","o">>

\* The text of the page files: about.page.tmpl holds
\* "Hello {{.Data.payload}}", c.page.tmpl holds "{{.Data.payload}}!".
PageText(n) ==
    IF n = F_about THEN S_Hello \o <<" ", Action>> ELSE <<Action, "!">>

\* The data a request passes (td): a value with a field Data holding the
\* payload, as main.go passes, or a value without it (bad), on which the
\* action cannot be evaluated.
NoData == [bad |-> TRUE, payload |-> << >>]
Datas == { [bad |-> FALSE, payload |-> <<"X">>], NoData }

\* html/template escapes what an action yields in HTML text: the
\* characters &, <, >, ", ' and + become character references, NUL becomes
\* U+FFFD, every other character is written as it is.
EscapeChar(ch) ==
    IF ch = "<" THEN <<"&","l","t",";">>
    ELSE IF ch = ">" THEN <<"&","g","t",";">>
    ELSE IF ch = "&" THEN <<"&","a","m","p",";">>
    ELSE IF ch = "\"" THEN <<"&","#","3","4",";">>
    ELSE IF ch = "'" THEN <<"&","#","3","9",";">>
    ELSE IF ch = "+" THEN <<"&","#","4","3",";">>
    ELSE IF ch = "NUL" THEN <<"U+FFFD">>
    ELSE <<ch>>

RECURSIVE Escape(_)
Escape(s) == IF s = << >> THEN << >> ELSE EscapeChar(Head(s)) \o Escape(Tail(s))

\* tmpl.Execute / tmpl.ExecuteTemplate, lines 57 and 76: the text is
\* written to the writer piece by piece, buf being what has been written;
\* an action that fails stops the execution and leaves what was written.
RECURSIVE Exec(_, _, _)
Exec(text, td, buf) ==
    IF text = << >> THEN [err |-> FALSE, buf |-> buf]
    ELSE IF Head(text) = Action
    THEN IF td.bad THEN [err |-> TRUE, buf |-> buf]
         ELSE Exec(Tail(text), td, buf \o Escape(td.payload))
    ELSE Exec(Tail(text), td, Append(buf, Head(text)))

\* What http.Error(w, err.Error(), http.StatusInternalServerError) does on
\* the sink, line 59: the status, then the text of the error.
HttpError == << "WriteHeader(500)", "error" >>

\* No result yet.  st: how the call ended; tmpl: the template GetTemplate
\* returned; w: what Show did on its sink, in order; out: the string String
\* returned; td: the data the template was executed on.
NoRes == [st |-> "none", tmpl |-> Nil, w |-> << >>, out |-> << >>, td |-> NoData]

VARIABLES
    TemplateDir,   \* Render.TemplateDir
    UseCache,      \* Render.UseCache
    Debug,         \* Render.Debug
    TemplateMap,   \* Render.TemplateMap: name -> compiled template
    TemplateMapB,  \* the TemplateMap of a second Render of the process
    ren,           \* the Render each caller's call is made on (its receiver)
    Partials,      \* Render.Partials, a slice header
    mapLock,       \* the package's mutex: 0 when free, else the holder
    disk,          \* status of the root (0) and of every entry of Tree
    pc,            \* where each caller is in its call
    op,            \* the operation each caller runs
    t,             \* the template name it resolves
    tmpl,          \* buildTemplate's local tmpl / buildTemplateFromDisk's
    templateSlice, \* buildTemplateFromDisk's local templateSlice
    load,          \* LoadLayoutsAndPartials' argument and local templates,
                   \* and the directory as it was at each walk made
    res,           \* what the call returned and wrote to its sink
    builds,        \* number of ParseFiles calls made (the build counter)
    nops,          \* number of operations begun
    lastLoad,      \* the last LoadLayoutsAndPartials call: its argument,
                   \* whether it failed, the directory at each of its
                   \* walks, the number of walks it made
    crashed,       \* the runtime stopped the process (fatal error)
    produced,      \* every template compiled so far
    stores,        \* per name, the number of writes of its cache entry
    everUncached   \* UseCache has been false at some time

vars == << TemplateDir, UseCache, Debug, TemplateMap, TemplateMapB, ren,
           Partials, mapLock, disk, pc, op, t, tmpl, templateSlice, load, res,
           builds, nops, lastLoad,
           crashed, produced, stores, everUncached >>

config == << TemplateDir, Debug >>
\* The locals of the calls under way.
locals == << templateSlice, load >>
callerVars == << pc, op, t, tmpl, res, ren, locals >>
\* No call of LoadLayoutsAndPartials.
NoLoad == [fileTypes |-> << >>, templates |-> << >>, disks |-> << >>]
\* The caches of the two Renders.
maps == << TemplateMap, TemplateMapB >>
\* A process can hold several Renders, each made by New() or by a literal
\* with a map of its own; mapLock is a variable of the package.  The model
\* has two: A, whose fields are the variables above, and B, which is
\* configured as A is and differs from it by its TemplateMap.
Renders == {"A", "B"}
history == << produced, stores, everUncached >>

\* m with key k set to v (a Go map assignment m[k] = v).
Put(m, k, v) == [x \in DOMAIN m \cup {k} |-> IF x = k THEN v ELSE m[x]]

\* The directory with every entry present and well formed.
DiskOk == [i \in 0..Len(Tree) |-> "ok"]

\* Changes the environment can make to the directory while it is walked:
\* the layout is deleted, inc becomes unreadable, the root is removed.
DiskEvents == { <<3, "gone">>, <<5, "bad">>, <<0, "gone">> }
\* Those that matter to a build while requests are served: the page
\* c.page.tmpl gets a syntax error, the layout is deleted.
ServeDiskEvents == { <<4, "bad">>, <<3, "gone">> }

\* The states of the directory that these changes lead to.
DiskStates ==
    { [i \in 0..Len(Tree) |->
         IF \E e \in S : e[1] = i
         THEN (CHOOSE e \in S : e[1] = i)[2] ELSE "ok"] :
      S \in SUBSET (DiskEvents \cup ServeDiskEvents) }

\* addTemplate(d, m) for every directory name d, every marker m and every
\* state of the directory of the model, computed once.
Discovered ==
    [d \in TemplateDirs |->
        [m \in UNION { {ms[k] : k \in 1..Len(ms)} : ms \in MarkerLists } |->
            [dk \in DiskStates |-> addTemplate(d, dk, m)]]]
\* The marker list of main.go (line 30).
ServeMarkerLists == { <<Dot \o S_layout>> }

\* New() and the literal of main.go: an empty map, no partials; the caller
\* sets TemplateDir, UseCache and Debug.
Init ==
    /\ TemplateDir \in TemplateDirs
    /\ UseCache \in BOOLEAN
    /\ Debug \in BOOLEAN
    /\ TemplateMap = << >>
    /\ TemplateMapB = << >>
    /\ ren = [c \in Callers |-> "A"]
    /\ Partials = Header(<< >>)
    /\ mapLock = 0
    /\ disk = DiskOk
    /\ pc = [c \in Callers |-> "idle"]
    /\ op = [c \in Callers |-> "none"]
    /\ t = [c \in Callers |-> F_about]
    /\ tmpl = [c \in Callers |-> Nil]
    /\ templateSlice = [c \in Callers |-> << >>]
    /\ load = [c \in Callers |-> NoLoad]
    /\ res = [c \in Callers |-> NoRes]
    /\ builds = 0
    /\ nops = 0
    /\ lastLoad = [markers |-> << >>, err |-> FALSE, disks |-> << >>, walks |-> 0]
    /\ crashed = FALSE
    /\ produced = {}
    /\ stores = [n \in Names |-> 0]
    /\ everUncached = ~UseCache

(***************************************************************************)
(* Resolution: buildTemplate and buildTemplateFromDisk, one step per       *)
(* access to shared state.                                                 *)
(***************************************************************************)
\* A request begins a call on name n in a free goroutine (the first free
\* one: goroutines are interchangeable) and enters buildTemplate with tmpl
\* nil.  Show, String and GetTemplate all begin with buildTemplate(t);
\* which of them the call is matters when buildTemplate returns, and is
\* recorded there.
Free(c) == pc[c] \in {"idle", "done"}

StartOn(c, n, r) ==
    /\ ~crashed
    /\ Free(c)
    /\ \A d \in Callers : d < c => ~Free(d)
    /\ nops < MaxOps
    /\ nops' = nops + 1
    /\ pc' = [pc EXCEPT ![c] = "flag"]
    /\ op' = [op EXCEPT ![c] = "none"]
    /\ t' = [t EXCEPT ![c] = n]
    /\ tmpl' = [tmpl EXCEPT ![c] = Nil]
    /\ res' = [res EXCEPT ![c] = NoRes]
    /\ ren' = [ren EXCEPT ![c] = r]
    /\ UNCHANGED << config, UseCache, maps, Partials, mapLock, disk, locals,
                    builds, lastLoad, crashed, history >>

\* A call on the Render A.
Start(c, n) == StartOn(c, n, "A")

\* ren.TemplateMap in the call of c.
MapOf_Shared(c) == TemplateMap

MapOf(c) == IF ren[c] = "A" THEN TemplateMap ELSE TemplateMapB

\* Caller d is inside the map assignment of line 169: it has begun it
\* ("store") and the new entry is not yet visible, or the entry is visible
\* and the assignment is completing ("stored").
InWrite(d) == pc[d] \in {"store", "stored"}

\* A read of the map by c overlaps a write of the same map: the two are not
\* synchronised.
\* The read then sees the map without or with the new entry, as the write
\* has got to, unless the runtime detects the overlap (Crash).
Racing(c) == \E d \in Callers \ {c} : InWrite(d) /\ ren[d] = ren[c]

\* The runtime stops the process: it detected the read of a map that is
\* being written, or a goroutine touched memory that is not its own.
Crash ==
    /\ crashed' = TRUE
    /\ UNCHANGED << config, UseCache, maps, Partials, mapLock, disk,
                    callerVars, builds, nops, lastLoad,
                    history >>

\* Show, lines 57-62, e being the outcome of ExecuteTemplate(w, t, td),
\* which wrote e.buf to w: on an error http.Error is called on w and the
\* error returned, otherwise nil is returned.
ShowResult_Silent(e) ==
    [NoRes EXCEPT !.st = IF e.err THEN "execerr" ELSE "ok", !.w = e.buf]

ShowResult(e) ==
    IF e.err THEN [NoRes EXCEPT !.st = "execerr", !.w = e.buf \o HttpError]
    ELSE [NoRes EXCEPT !.st = "ok", !.w = e.buf]

\* String, lines 75-82, e being the outcome of Execute(&tpl, td), which
\* wrote e.buf to the buffer tpl: on an error "" and the error are
\* returned, otherwise the content of the buffer and nil.
StringResult_PartialBuffer(e) ==
    [NoRes EXCEPT !.st = IF e.err THEN "execerr" ELSE "ok", !.out = e.buf]

StringResult(e) ==
    IF e.err THEN [NoRes EXCEPT !.st = "execerr", !.out = << >>]
    ELSE [NoRes EXCEPT !.st = "ok", !.out = e.buf]

\* What the operation o returns and writes once buildTemplate has returned
\* tm: GetTemplate returns tm (it has no data); Show and String execute the
\* page template of tm on the data td.
Outcome(o, tm, td) ==
    IF o = "GetTemplate" THEN [NoRes EXCEPT !.st = "ok", !.tmpl = tm]
    ELSE LET e == Exec(PageText(tm.name), td, << >>)
         IN [(IF o = "Show" THEN ShowResult(e) ELSE StringResult(e))
                EXCEPT !.td = td]

\* What the operation o returns when buildTemplate returned an error: Show
\* (line 53) and GetTemplate (line 92) the error, String (line 71) the empty
\* string and the error; nothing is written to the sink of Show.
BuildError(o) == [NoRes EXCEPT !.st = "builderr"]

\* The call ended in a run-time panic (nil pointer dereference), which the
\* server recovers: the goroutine returns nothing, the process goes on.
Panicked == [NoRes EXCEPT !.st = "panic"]

\* buildTemplate returned tm to the operation, which runs to its end; the
\* execution touches nothing shared.
Resolved(c, tm) ==
    /\ \E o \in Ops, td \in Datas :
          /\ o = "GetTemplate" => td = NoData
          /\ op' = [op EXCEPT ![c] = o]
          /\ res' = [res EXCEPT ![c] = Outcome(o, tm, td)]
    /\ pc' = [pc EXCEPT ![c] = "done"]
    /\ tmpl' = [tmpl EXCEPT ![c] = Nil]

\* Line 111, if ren.UseCache: the cache is consulted when the flag, whose
\* value is useCache, is set.
Consulted_IgnoresFlag(useCache) == TRUE

Consulted(useCache) == useCache

\* buildTemplate, line 111: the field ren.UseCache is read, without any
\* synchronisation; when it is set the map is looked up next, otherwise
\* tmpl stays nil and buildTemplateFromDisk is entered (line 122).
TestUseCache(c) ==
    /\ ~crashed
    /\ pc[c] = "flag"
    /\ pc' = [pc EXCEPT ![c] =
                 IF Consulted(UseCache) THEN "lookup" ELSE "read"]
    /\ UNCHANGED << config, UseCache, maps, Partials, mapLock, disk, locals,
                    op, t, tmpl, res, ren, builds, nops, lastLoad, crashed,
                    history >>

\* Line 112, templateFromMap, ok := ren.TemplateMap[t]: ok for the map m
\* and the name n.
CacheHit_NoCache(m, n) == FALSE

CacheHit(m, n) == n \in DOMAIN m

\* buildTemplate, lines 112-124, reached when line 111 found the flag set,
\* whatever the flag is now: on a hit the cached template is returned,
\* otherwise buildTemplateFromDisk is entered; the lookup holds no lock.
Lookup(c) ==
    /\ ~crashed
    /\ pc[c] = "lookup"
    /\ IF CacheHit(MapOf(c), t[c])
       THEN Resolved(c, MapOf(c)[t[c]])
       ELSE /\ pc' = [pc EXCEPT ![c] = "read"]
            /\ UNCHANGED << op, tmpl, res >>
    /\ UNCHANGED << config, UseCache, maps, Partials, mapLock, disk, locals,
                    t, ren, builds, nops, lastLoad, crashed, history >>

\* Line 112 while another goroutine is in the assignment of line 169: the
\* runtime can detect the overlap and stop the process.
LookupCrash(c) ==
    /\ ~crashed
    /\ pc[c] = "lookup"
    /\ Racing(c)
    /\ Crash

\* The file at path p exists, can be read and parses.
PathOk(p) ==
    \E i \in 1..Len(Tree) :
        /\ JoinedPath[TemplateDir][Tree[i].rel] = p
        /\ Tree[i].kind = "file"
        /\ Reached(disk, i)
        /\ disk[i] = "ok"

\* The list of files of a build of name n, lines 146-155: the elements
\* that the read of ren.Partials (line 151) gave, then the page file.
TemplateSlice_PageOnly(partials, n) == << JoinedPath[TemplateDir][n] >>

TemplateSlice(partials, n) == partials \o << JoinedPath[TemplateDir][n] >>

\* What lies behind the end of the array of a slice: no path of a file.
Junk == << >>

\* The elements a read of the slice header h gives when its length exceeds
\* its (non-nil) array: the array, then what lies behind it.
OverRead(h) == h.arr \o [k \in 1..(h.len - Len(h.arr)) |-> Junk]

\* buildTemplateFromDisk, lines 146-155: ren.Partials is read, without any
\* synchronisation, and copied to the local templateSlice, to which the
\* path of the page file is appended.  When a store of line 218 is under
\* way the header read is torn.  With its length within its array the copy
\* takes that many elements.  With a nil array and a length above 0 the
\* copy dereferences nil and the call panics, before ParseFiles.  With a
\* length beyond a non-nil array the copy takes what lies behind the array,
\* or the access faults and the process stops.
Read(c) ==
    /\ ~crashed
    /\ pc[c] = "read"
    /\ IF Partials.len <= Len(Partials.arr)
       THEN /\ templateSlice' =
                  [templateSlice EXCEPT ![c] = TemplateSlice(Elements(Partials), t[c])]
            /\ pc' = [pc EXCEPT ![c] = "parse"]
            /\ UNCHANGED << res, crashed >>
       ELSE IF Partials.arr = << >>
       THEN /\ pc' = [pc EXCEPT ![c] = "done"]
            /\ res' = [res EXCEPT ![c] = Panicked]
            /\ UNCHANGED << templateSlice, crashed >>
       ELSE \/ /\ templateSlice' =
                     [templateSlice EXCEPT ![c] = TemplateSlice(OverRead(Partials), t[c])]
               /\ pc' = [pc EXCEPT ![c] = "parse"]
               /\ UNCHANGED << res, crashed >>
            \/ /\ crashed' = TRUE
               /\ UNCHANGED << pc, res, templateSlice >>
    /\ UNCHANGED << config, UseCache, maps, Partials, mapLock, disk, load,
                    op, t, tmpl, ren, builds, nops, lastLoad, history >>

\* buildTemplateFromDisk, lines 158-161: ParseFiles on the files of
\* templateSlice, as the directory is at that time.  An error is returned
\* at once (and by buildTemplate and the operation after it), the cache
\* being left as onError.
ParseFilesWith(c, onError) ==
    /\ ~crashed
    /\ pc[c] = "parse"
    /\ builds' = builds + 1
    /\ templateSlice' = [templateSlice EXCEPT ![c] = << >>]
    /\ LET slice == templateSlice[c]
           new == [name |-> t[c], files |-> slice, id |-> builds + 1]
       IN IF \A k \in 1..Len(slice) : PathOk(slice[k])
          THEN /\ tmpl' = [tmpl EXCEPT ![c] = new]
               /\ produced' = produced \cup {new}
               /\ pc' = [pc EXCEPT ![c] = "lock"]
               /\ UNCHANGED << op, res, TemplateMap >>
          ELSE /\ pc' = [pc EXCEPT ![c] = "done"]
               /\ \E o \in Ops :
                     /\ op' = [op EXCEPT ![c] = o]
                     /\ res' = [res EXCEPT ![c] = BuildError(o)]
               /\ TemplateMap' = onError
               /\ UNCHANGED << tmpl, produced >>
    /\ UNCHANGED << config, UseCache, TemplateMapB, Partials, mapLock, disk,
                    load, t, ren, nops, lastLoad, crashed, stores,
                    everUncached >>

\* m without the key n.
Drop(m, n) == [x \in DOMAIN m \ {n} |-> m[x]]

ParseFiles_DropsEntry(c) == ParseFilesWith(c, Drop(TemplateMap, t[c]))

ParseFiles(c) == ParseFilesWith(c, TemplateMap)

\* mapLock.Lock(), line 168: the caller waits until the mutex is free.
LockWhen(c, free) ==
    /\ ~crashed
    /\ pc[c] = "lock"
    /\ free
    /\ mapLock' = c
    /\ pc' = [pc EXCEPT ![c] = "store"]
    /\ UNCHANGED << config, UseCache, maps, Partials, disk, op, t, tmpl,
                    res, ren, locals, builds, nops, lastLoad, crashed,
                    history >>

Lock_NoWait(c) == LockWhen(c, TRUE)

Lock(c) == LockWhen(c, mapLock = 0)

\* Line 169, ren.TemplateMap[t] = tmpl: the map after the assignment.
StoredMap_OnlyIfCaching(m, n, tm) == IF UseCache THEN Put(m, n, tm) ELSE m

StoredMap_FreshMap(m, n, tm) == Put(<< >>, n, tm)

StoredMap(m, n, tm) == Put(m, n, tm)

\* ren.TemplateMap[t] = tmpl, line 169: the entry becomes visible.
Store(c) ==
    /\ ~crashed
    /\ pc[c] = "store"
    /\ IF ren[c] = "A"
       THEN /\ TemplateMap' = StoredMap(TemplateMap, t[c], tmpl[c])
            /\ TemplateMapB' = TemplateMapB
       ELSE /\ TemplateMapB' = StoredMap(TemplateMapB, t[c], tmpl[c])
            /\ TemplateMap' = TemplateMap
    /\ stores' = [stores EXCEPT ![t[c]] = @ + 1]
    /\ pc' = [pc EXCEPT ![c] = "stored"]
    /\ UNCHANGED << config, UseCache, Partials, mapLock, disk, op, t, tmpl,
                    res, ren, locals, builds, nops, lastLoad, crashed,
                    produced, everUncached >>

\* The assignment is complete; mapLock.Unlock(), line 170.
Unlock(c) ==
    /\ ~crashed
    /\ pc[c] = "stored"
    /\ mapLock' = 0
    /\ pc' = [pc EXCEPT ![c] = "peek"]
    /\ UNCHANGED << config, UseCache, maps, Partials, disk, op, t, tmpl,
                    res, ren, locals, builds, nops, lastLoad, crashed,
                    history >>

\* Lines 173-193: the entry of "about.page.tmpl" is read, without the lock,
\* and DefinedTemplates is called on it; on a nil entry that dereferences a
\* nil pointer and the call panics.  Otherwise the new template is returned.
Peek(c) ==
    /\ ~crashed
    /\ pc[c] = "peek"
    /\ IF F_about \in DOMAIN MapOf(c)
       THEN Resolved(c, tmpl[c])
       ELSE /\ pc' = [pc EXCEPT ![c] = "done"]
            /\ res' = [res EXCEPT ![c] = Panicked]
            /\ tmpl' = [tmpl EXCEPT ![c] = Nil]
            /\ op' = op
    /\ UNCHANGED << config, UseCache, maps, Partials, mapLock, disk, locals,
                    t, ren, builds, nops, lastLoad, crashed,
                    history >>

PeekCrash(c) ==
    /\ ~crashed
    /\ pc[c] = "peek"
    /\ Racing(c)
    /\ Crash

(***************************************************************************)
(* Discovery: LoadLayoutsAndPartials, one step per walk of the directory   *)
(* and per access to ren.Partials.  It takes no lock and tests nothing;    *)
(* when it is called is the application's choice (see Discovery,           *)
(* Rediscovery and Request below).                                         *)
(***************************************************************************)
\* A goroutine begins the call LoadLayoutsAndPartials(fileTypes), lines
\* 207-210: the local templates is nil.
LoadLayoutsAndPartials(c, fileTypes) ==
    /\ ~crashed
    /\ Free(c)
    /\ \A d \in Callers : d < c => ~Free(d)
    /\ nops < MaxOps
    /\ nops' = nops + 1
    /\ pc' = [pc EXCEPT ![c] = IF fileTypes = << >> THEN "assign" ELSE "walk"]
    /\ op' = [op EXCEPT ![c] = "LoadLayoutsAndPartials"]
    /\ tmpl' = [tmpl EXCEPT ![c] = Nil]
    /\ res' = [res EXCEPT ![c] = NoRes]
    /\ load' = [load EXCEPT ![c] = [NoLoad EXCEPT !.fileTypes = fileTypes]]
    /\ UNCHANGED << config, UseCache, maps, Partials, mapLock, disk, t, ren,
                    templateSlice, builds, lastLoad, crashed, history >>

\* Lines 213-215, a walk failed: the error is returned and ren.Partials,
\* whose header is h, is not assigned; templates, collected so far, is
\* dropped.
PartialsAtError_KeepsCollected(h, templates) == Header(templates)

PartialsAtError(h, templates) == h

\* Line 216, templates = append(templates, files...): every file of the
\* marker is added, also one that templates holds already.
Collected_SkipsKnown(templates, files) ==
    templates \o SelectSeq(files, LAMBDA f :
                     \A k \in 1..Len(templates) : templates[k] # f)

Collected(templates, files) == templates \o files

\* One turn of the loop, lines 211-217: addTemplate walks the directory as
\* it is now for the next marker; its error is returned at once, otherwise
\* its files are appended to templates.
Walk(c) ==
    /\ ~crashed
    /\ pc[c] = "walk"
    /\ LET l == load[c]
           k == Len(l.disks) + 1
           r == Discovered[TemplateDir][l.fileTypes[k]][disk]
           seen == Append(l.disks, disk)
       IN IF r.err
          THEN /\ pc' = [pc EXCEPT ![c] = "done"]
               /\ res' = [res EXCEPT ![c] = [NoRes EXCEPT !.st = "walkerr"]]
               /\ Partials' = PartialsAtError(Partials, l.templates)
               /\ lastLoad' = [markers |-> l.fileTypes, err |-> TRUE,
                               disks |-> seen, walks |-> k]
               /\ load' = [load EXCEPT ![c] = NoLoad]
          ELSE /\ load' = [load EXCEPT
                            ![c].templates = Collected(@, r.files),
                            ![c].disks = seen]
               /\ pc' = [pc EXCEPT ![c] =
                            IF k = Len(l.fileTypes) THEN "assign" ELSE "walk"]
               /\ UNCHANGED << res, Partials, lastLoad >>
    /\ UNCHANGED << config, UseCache, maps, mapLock, disk, op, t, tmpl, ren,
                    templateSlice, builds, nops, crashed, history >>

\* Line 218, ren.Partials = templates: the store of a slice header is a
\* store of each of its words, the address of the array and the length
\* (the capacity is not read by the package), in an order the build
\* chooses, and nothing synchronises it with the reads of lines 151 and 219
\* or with the store of another call.  The first word w is stored.
AssignFirst(c, w) ==
    /\ ~crashed
    /\ pc[c] = "assign"
    /\ IF w = "arr"
       THEN /\ Partials' = [Partials EXCEPT !.arr = load[c].templates]
            /\ pc' = [pc EXCEPT ![c] = "assignLen"]
       ELSE /\ Partials' = [Partials EXCEPT !.len = Len(load[c].templates)]
            /\ pc' = [pc EXCEPT ![c] = "assignArr"]
    /\ UNCHANGED << config, UseCache, maps, mapLock, disk, op, t, tmpl, res,
                    ren, locals, builds, nops, lastLoad, crashed, history >>

\* Line 218: the other word is stored, and the assignment is complete.
AssignSecond(c) ==
    /\ ~crashed
    /\ pc[c] \in {"assignLen", "assignArr"}
    /\ Partials' = IF pc[c] = "assignArr"
                   THEN [Partials EXCEPT !.arr = load[c].templates]
                   ELSE [Partials EXCEPT !.len = Len(load[c].templates)]
    /\ pc' = [pc EXCEPT ![c] = "print"]
    /\ lastLoad' = [markers |-> load[c].fileTypes, err |-> FALSE,
                    disks |-> load[c].disks, walks |-> Len(load[c].disks)]
    /\ UNCHANGED << config, UseCache, maps, mapLock, disk, op, t, tmpl, res,
                    ren, locals, builds, nops, crashed, history >>

\* Lines 219-221: ren.Partials is read again, for fmt.Println, and nil is
\* returned.  On a torn header the read does what that of line 151 does: a
\* nil array with a length above 0 makes the call panic, a length beyond a
\* non-nil array prints what lies behind it or stops the process.
ShowPartials(c) ==
    /\ ~crashed
    /\ pc[c] = "print"
    /\ IF Partials.len <= Len(Partials.arr)
       THEN /\ pc' = [pc EXCEPT ![c] = "done"]
            /\ res' = [res EXCEPT ![c] = [NoRes EXCEPT !.st = "loaded"]]
            /\ load' = [load EXCEPT ![c] = NoLoad]
            /\ crashed' = crashed
       ELSE IF Partials.arr = << >>
       THEN /\ pc' = [pc EXCEPT ![c] = "done"]
            /\ res' = [res EXCEPT ![c] = Panicked]
            /\ load' = [load EXCEPT ![c] = NoLoad]
            /\ crashed' = crashed
       ELSE \/ /\ pc' = [pc EXCEPT ![c] = "done"]
               /\ res' = [res EXCEPT ![c] = [NoRes EXCEPT !.st = "loaded"]]
               /\ load' = [load EXCEPT ![c] = NoLoad]
               /\ crashed' = crashed
            \/ /\ crashed' = TRUE
               /\ UNCHANGED << pc, res, load >>
    /\ UNCHANGED << config, UseCache, maps, Partials, mapLock, disk, op, t,
                    tmpl, ren, templateSlice, builds, nops, lastLoad,
                    history >>

(***************************************************************************)
(* The application and the environment.                                    *)
(***************************************************************************)
\* The application sets the exported field UseCache.
SetUseCache(b) ==
    /\ ~crashed
    /\ nops < MaxOps
    /\ b # UseCache
    /\ nops' = nops + 1
    /\ UseCache' = b
    /\ everUncached' = (everUncached \/ ~b)
    /\ UNCHANGED << config, maps, Partials, mapLock, disk, callerVars,
                    builds, lastLoad, crashed, produced, stores >>

\* A file or directory under TemplateDir changes.
ChangeDisk(i, s) ==
    /\ ~crashed
    /\ nops < MaxOps
    /\ disk[i] # s
    /\ nops' = nops + 1
    /\ disk' = [disk EXCEPT ![i] = s]
    /\ UNCHANGED << config, UseCache, maps, Partials, mapLock,
                    callerVars, builds, lastLoad, crashed, history >>

\* The Render of main.go (lines 21-27): TemplateDir "./tpl", caching and
\* debugging on.
InitServe ==
    /\ Init
    /\ TemplateDir = Dot \o Slash \o D_tpl
    /\ UseCache
    /\ Debug

\* A step of a call of LoadLayoutsAndPartials that is under way.
LoadStep(c) ==
    \/ Walk(c)
    \/ \E w \in {"arr", "len"} : AssignFirst(c, w)
    \/ AssignSecond(c)
    \/ ShowPartials(c)

\* A call of LoadLayoutsAndPartials is under way.
Loading == \E c \in Callers : op[c] = "LoadLayoutsAndPartials" /\ ~Free(c)

\* main.go, line 30: the one call of LoadLayoutsAndPartials of the program,
\* made by main before any handler exists.
Discovery(c, fileTypes) ==
    /\ lastLoad.markers = << >>
    /\ ~Loading
    /\ LoadLayoutsAndPartials(c, fileTypes)

\* main.go, lines 31-60: the call of line 30 has returned, and returned
\* nil (on an error log.Fatal ends the process at line 32), and the server
\* of line 60 is listening.
Serving == lastLoad.markers # << >> /\ ~lastLoad.err /\ ~Loading

\* main.go, lines 35-57: a request arrives and its handler, in a goroutine
\* of the server, begins a call on name n.
Request(c, n) == Serving /\ Start(c, n)

Next ==
    \/ \E c \in Callers, ms \in ServeMarkerLists : Discovery(c, ms)
    \/ \E c \in Callers : LoadStep(c)
    \/ \E c \in Callers, n \in Names : Request(c, n)
    \/ \E c \in Callers : TestUseCache(c)
    \/ \E c \in Callers : Lookup(c)
    \/ \E c \in Callers : LookupCrash(c)
    \/ \E c \in Callers : Read(c)
    \/ \E c \in Callers : ParseFiles(c)
    \/ \E c \in Callers : Lock(c)
    \/ \E c \in Callers : Store(c)
    \/ \E c \in Callers : Unlock(c)
    \/ \E c \in Callers : Peek(c)
    \/ \E c \in Callers : PeekCrash(c)
    \/ \E b \in BOOLEAN : SetUseCache(b)
    \/ \E e \in ServeDiskEvents : ChangeDisk(e[1], e[2])

Spec == InitServe /\ [][Next]_vars

\* A step of a call that is under way.
CallStep ==
    \E c \in Callers :
        \/ TestUseCache(c) \/ Lookup(c) \/ Read(c) \/ ParseFiles(c)
        \/ Lock(c) \/ Store(c) \/ Unlock(c) \/ Peek(c) \/ LoadStep(c)

\* Scheduling: while some goroutine can take the next step of its call, one
\* of them does (the scheduler runs every runnable goroutine, and
\* sync.Mutex hands a free lock to a waiter).  Nothing obliges a request to
\* arrive, the environment to act, or the runtime to detect a race.
Fairness == WF_vars(CallStep)

SpecFair == InitServe /\ [][Next]_vars /\ Fairness

\* Requests on two Renders of one process: each call is made on A or on B,
\* and all resolve the one name the two applications have in common.
NextTwo ==
    \/ \E c \in Callers, r \in Renders : StartOn(c, F_about, r)
    \/ \E c \in Callers : TestUseCache(c)
    \/ \E c \in Callers : Lookup(c)
    \/ \E c \in Callers : LookupCrash(c)
    \/ \E c \in Callers : Read(c)
    \/ \E c \in Callers : ParseFiles(c)
    \/ \E c \in Callers : Lock(c)
    \/ \E c \in Callers : Store(c)
    \/ \E c \in Callers : Unlock(c)
    \/ \E c \in Callers : Peek(c)
    \/ \E c \in Callers : PeekCrash(c)

SpecTwo == InitServe /\ [][NextTwo]_vars

\* The discovery pass made again, by the goroutine that configures the
\* Render and once the call before it has returned.
Rediscovery(c, fileTypes) == ~Loading /\ LoadLayoutsAndPartials(c, fileTypes)

\* Discovery alone, over every directory name and marker list: calls of
\* LoadLayoutsAndPartials, one after the other, and changes of the
\* directory, also between the walks of a call.
NextDiscovery ==
    \/ \E c \in Callers, ms \in MarkerLists : Rediscovery(c, ms)
    \/ \E c \in Callers : LoadStep(c)
    \/ \E e \in DiskEvents : ChangeDisk(e[1], e[2])

\* Discovery reads neither UseCache nor Debug.
InitDiscovery == Init /\ UseCache /\ Debug /\ TemplateDir \in {D_tpl, D_partials}

SpecDiscovery == InitDiscovery /\ [][NextDiscovery]_vars

(***************************************************************************)
(* Properties.                                                             *)
(***************************************************************************)
Range(f) == {f[x] : x \in DOMAIN f}

\* Caller c takes a step of its call.
Steps(c) == pc'[c] # pc[c]

\* The call of c got a template from buildTemplate (its resolution
\* succeeded), whatever the execution did afterwards.
ResolvedOk(r) == r.st \in {"ok", "execerr"}

\* The name of a resolution that succeeded is a key of TemplateMap.
C1_ResolvedIsCached ==
    \A c \in Callers :
        pc[c] = "done" /\ ResolvedOk(res[c]) => t[c] \in DOMAIN TemplateMap

\* A resolution that finds UseCache true goes to the lookup, and a lookup
\* of n made while n is a key ends the resolution with the stored
\* template, without a build.
C1_HitStep ==
    \A c \in Callers :
        /\ (pc[c] = "flag" /\ Steps(c) /\ UseCache)
           => pc'[c] = "lookup" /\ builds' = builds /\ TemplateMap' = TemplateMap
        /\ (pc[c] = "lookup" /\ Steps(c) /\ t[c] \in DOMAIN TemplateMap)
           => /\ pc'[c] = "done"
              /\ builds' = builds
              /\ ResolvedOk(res'[c])
              /\ op'[c] = "GetTemplate" => res'[c].tmpl = TemplateMap[t[c]]
              /\ TemplateMap' = TemplateMap

\* C1: once a resolution of n has succeeded n is a key of TemplateMap, and
\* a resolution that looks n up while UseCache is true and n is a key makes
\* no disk build (the build counter stays) and gets the template stored
\* under n.
C1_CachedResolutionDoesNotBuild == [](C1_ResolvedIsCached) /\ [][C1_HitStep]_vars

\* After the discovery two calls and nothing else were made, the second
\* was served from the cache: one build, and GetTemplate returned the
\* stored template.
C1_Witness ==
    /\ nops = 3 /\ builds = 1 /\ disk = DiskOk
    /\ UseCache /\ ~everUncached /\ ~crashed
    /\ \A c \in Callers : Free(c)
    /\ \E c \in Callers :
          /\ pc[c] = "done" /\ op[c] = "GetTemplate" /\ res[c].st = "ok"
          /\ t[c] \in DOMAIN TemplateMap
          /\ res[c].tmpl = TemplateMap[t[c]]
          /\ stores[t[c]] = 1

\* C2: every call of buildTemplateFromDisk ends by returning the compiled
\* template or by returning an error: no call ends otherwise, whether or not
\* "about.page.tmpl" is in the cache.
C2_BuildReturnsTemplateOrError ==
    \A c \in Callers :
        (pc[c] = "done" /\ op[c] # "LoadLayoutsAndPartials") =>
            res[c].st \in {"ok", "execerr", "builderr"}

\* Caller c is at a read of the map: the lookup of line 112 (reached only
\* when line 111 found UseCache set) or the lookup of line 173.
AtMapRead(c) == pc[c] \in {"peek", "lookup"}

\* C3: no caller is at a read of TemplateMap while another caller is inside
\* its write of TemplateMap.
C3_NoReadDuringWrite ==
    \A c, d \in Callers : c # d => ~(AtMapRead(c) /\ InWrite(d))

\* C4: the writes of the cache exclude one another, every entry is a
\* complete template compiled for its name by one of the builds, and once
\* all callers have finished every name that was built has its entry.
C4_CacheNeverCorrupted ==
    /\ Cardinality({c \in Callers : InWrite(c)}) <= 1
    /\ \A n \in DOMAIN TemplateMap :
          /\ TemplateMap[n] \in produced
          /\ TemplateMap[n].name = n
          /\ TemplateMap[n].id \in 1..builds
          /\ TemplateMap[n].files[Len(TemplateMap[n].files)]
                = JoinedPath[TemplateDir][n]
    /\ (\A c \in Callers : Free(c)) =>
          \A p \in produced : p.name \in DOMAIN TemplateMap

\* Caching was on throughout, two builds of one name ran (so they
\* overlapped), all callers have finished and the entry is one of the two.
C4_Witness ==
    /\ ~everUncached /\ ~crashed
    /\ \A c \in Callers : Free(c)
    /\ \E p, q \in produced :
          /\ p.name = q.name /\ p.id # q.id
          /\ stores[p.name] = 2
          /\ TemplateMap[p.name] \in {p, q}

\* The build of c is about to fail: a file of its list is missing,
\* unreadable or malformed.
BuildFails(c) ==
    \E k \in 1..Len(templateSlice[c]) : ~PathOk(templateSlice[c][k])

\* The test of UseCache, the lookup and the read of the partials change
\* nothing of TemplateMap,
\* and neither does a build that fails, which ends the call with the error.
C5_FailStep ==
    \A c \in Callers :
        /\ (pc[c] \in {"flag", "lookup", "read"} /\ Steps(c))
           => TemplateMap' = TemplateMap
        /\ (pc[c] = "parse" /\ Steps(c) /\ BuildFails(c))
           => /\ pc'[c] = "done"
              /\ res'[c].st = "builderr"
              /\ res'[c].tmpl = Nil
              /\ tmpl'[c] = Nil
              /\ TemplateMap' = TemplateMap

\* C5: a resolution whose build fails returns the error and none of its
\* steps changes TemplateMap: a name without entry still has none, a prior
\* entry is untouched.
C5_FailedBuildLeavesCache == [][C5_FailStep]_vars

\* A build has failed while the cache held an entry for its name, and the
\* entry is still the template a build produced.
C5_Witness ==
    \E c \in Callers :
        /\ pc[c] = "done" /\ res[c].st = "builderr"
        /\ t[c] \in DOMAIN TemplateMap
        /\ TemplateMap[t[c]] \in produced

\* A build counts, and its template is a new one, not one of the cache.
C6_FreshBuild(c) ==
    (pc[c] = "parse" /\ Steps(c))
    => /\ builds' = builds + 1
       /\ pc'[c] = "lock" =>
             /\ tmpl'[c].id = builds'
             /\ tmpl'[c] \notin Range(TemplateMap)

\* A step that a resolution takes before its build while UseCache is false
\* (the test of line 111, the lookup of line 112) takes nothing from the
\* cache and enters buildTemplateFromDisk.
C6_UncachedStep ==
    \A c \in Callers :
        /\ (pc[c] \in {"flag", "lookup"} /\ Steps(c) /\ ~UseCache)
           => pc'[c] = "read" /\ tmpl'[c] = Nil /\ res'[c] = NoRes
        /\ C6_FreshBuild(c)

\* C6 as claimed: while UseCache is false every resolution goes to a fresh
\* disk build, also when the name has an entry, and a build never yields a
\* template that is in the cache: the cached entry is never returned while
\* UseCache is false.
C6_NoCacheForcesBuild == [][C6_UncachedStep]_vars

\* A resolution that finds UseCache false at its test of line 111 takes
\* nothing from the cache and enters buildTemplateFromDisk, where it reads
\* the partials and parses; only a resolution that found UseCache true at
\* that test makes the lookup, which alone returns a cached entry.
C6_TestedStep ==
    \A c \in Callers :
        /\ (pc[c] = "flag" /\ Steps(c) /\ ~UseCache)
           => pc'[c] = "read" /\ tmpl'[c] = Nil /\ res'[c] = NoRes
        /\ (pc[c] = "read" /\ Steps(c)) => pc'[c] = "parse"
        /\ (pc'[c] = "lookup" /\ Steps(c)) => pc[c] = "flag" /\ UseCache
        /\ (pc'[c] = "done" /\ Steps(c) /\ ResolvedOk(res'[c]))
           => pc[c] \in {"lookup", "peek"}
        /\ C6_FreshBuild(c)

\* C6 as amended: every resolution that finds UseCache false when it tests
\* it (line 111) goes to a fresh disk build, also when the name has an
\* entry, and a build never yields a template that is in the cache; a
\* cached entry is returned only to a resolution that found UseCache true
\* at its test.
C6_FalseAtTestForcesBuild == [][C6_TestedStep]_vars

\* UseCache is false, the name has an entry from an earlier build, and the
\* resolution is at its disk build all the same.
C6_Witness ==
    \E c \in Callers :
        /\ pc[c] = "parse" /\ ~UseCache
        /\ t[c] \in DOMAIN TemplateMap
        /\ stores[t[c]] = 1 /\ builds = 1

\* A build that compiled its template goes on to the lock and the store,
\* and the store puts that template under its name.
C7_StoreStep ==
    \A c \in Callers :
        /\ (pc[c] = "parse" /\ Steps(c) /\ ~BuildFails(c))
           => pc'[c] = "lock" /\ tmpl'[c] \in produced'
        /\ (pc[c] = "lock" /\ Steps(c)) => pc'[c] = "store"
        /\ (pc[c] = "store" /\ Steps(c))
           => /\ t[c] \in DOMAIN TemplateMap'
              /\ TemplateMap'[t[c]] = tmpl[c]
              /\ tmpl[c] \in produced

C8_AtMostOneWrite ==
    ~everUncached => \A n \in Names : stores[n] <= 1

\* C8 as amended: with UseCache true throughout, the entry of a name is
\* written at most once per caller that can run concurrently (each of the
\* resolutions that looked the name up before its first write writes it).
C8_WritesBoundedByCallers ==
    ~everUncached => \A n \in Names : stores[n] <= NumCallers

\* Two overlapping resolutions of one name have both written its entry.
C8_Witness ==
    /\ ~everUncached
    /\ \E n \in Names : stores[n] = 2 /\ n \in DOMAIN TemplateMap

\* Every key of TemplateMap is a key after the step, with a template.
C9_KeepStep ==
    \A n \in DOMAIN TemplateMap :
        n \in DOMAIN TemplateMap' /\ TemplateMap'[n] # Nil

MarkedFiles(root, d, markers) ==
    { Join(root, Tree[i].rel) :
        i \in { j \in 1..Len(Tree) :
                  /\ Tree[j].kind = "file"
                  /\ Reached(d, j)
                  /\ Ext(Base(Tree[j].rel)) = TmplExt
                  /\ \E k \in 1..Len(markers) :
                        Contains(Base(Tree[j].rel), markers[k]) } }

\* A store of ren.Partials (line 218) is under way.
Assigning == \E c \in Callers : pc[c] \in {"assignLen", "assignArr"}

\* C10: after a successful discovery pass, the paths in Partials are exactly
\* the template files under TemplateDir that are a layout or a partial for
\* one of the markers (so the pages are excluded), whatever the directory
\* is named.
C10_PartialsAreMarkedFiles ==
    (/\ lastLoad.markers # << >> /\ ~lastLoad.err /\ ~Assigning
     /\ \A k \in 1..Len(lastLoad.disks) : lastLoad.disks[k] = lastLoad.disks[1])
    => /\ Partials.len <= Len(Partials.arr)
       /\ Range(Elements(Partials))
             = MarkedFiles(TemplateDir, lastLoad.disks[1], lastLoad.markers)

\* C11: a Show whose template resolved but whose execution failed has
\* called http.Error with status 500 on its sink, after whatever the
\* execution had written, and returned the execution error; a Show whose
\* build failed has returned the build error and written nothing; a Show
\* that succeeded has written the page and no error response.
C11_ShowReportsExecutionError ==
    \A c \in Callers :
        (pc[c] = "done" /\ op[c] = "Show") =>
            LET w == res[c].w
            IN /\ res[c].st \in {"ok", "execerr"} =>
                     (res[c].st = "execerr" <=> res[c].td.bad)
               /\ res[c].st = "execerr" =>
                     /\ Len(w) >= 2
                     /\ w[Len(w) - 1] = "WriteHeader(500)"
                     /\ w[Len(w)] = "error"
                     /\ \A k \in 1..(Len(w) - 2) : w[k] \notin Range(HttpError)
               /\ res[c].st = "builderr" => w = << >>
               /\ res[c].st = "ok" =>
                     /\ w # << >>
                     /\ \A k \in 1..Len(w) : w[k] \notin Range(HttpError)

\* A Show of about.page.tmpl on data without the payload has failed in its
\* execution after "Hello " was written, and the error response follows it
\* on the sink; another Show has failed in its build.
C11_Witness ==
    /\ \E c \in Callers :
          /\ pc[c] = "done" /\ op[c] = "Show" /\ res[c].st = "execerr"
          /\ t[c] = F_about
          /\ res[c].w = S_Hello \o <<" ">> \o HttpError
    /\ \E c \in Callers :
          /\ pc[c] = "done" /\ op[c] = "Show" /\ res[c].st = "builderr"
          /\ res[c].w = << >>

\* C13: a String whose resolution and execution succeeded has returned the
\* whole rendered page ("Hello X" for the text "Hello {{.Data.payload}}"
\* and the payload X) and no error; a String whose build or execution
\* failed has returned the empty string and the error, not what the
\* execution had written to the buffer.
C13_StringReturnsPageOrEmpty ==
    \A c \in Callers :
        (pc[c] = "done" /\ op[c] = "String") =>
            /\ res[c].st \in {"ok", "execerr"} =>
                  (res[c].st = "execerr" <=> res[c].td.bad)
            /\ res[c].st = "ok" =>
                  res[c].out = IF t[c] = F_about
                               THEN <<"H","e","l","l","o"," ">> \o res[c].td.payload
                               ELSE res[c].td.payload \o <<"!">>
            /\ res[c].st \in {"builderr", "execerr"} => res[c].out = << >>
            /\ res[c].w = << >>

\* One String of about.page.tmpl with payload X has returned "Hello X";
\* another, on data without the payload, has failed after "Hello " was in
\* its buffer and has returned the empty string.
C13_Witness ==
    /\ \E c \in Callers :
          /\ pc[c] = "done" /\ op[c] = "String" /\ res[c].st = "ok"
          /\ t[c] = F_about /\ res[c].td.payload = <<"X">>
          /\ res[c].out = <<"H","e","l","l","o"," ","X">>
    /\ \E c \in Callers :
          /\ pc[c] = "done" /\ op[c] = "String" /\ res[c].st = "execerr"
          /\ t[c] = F_about /\ res[c].out = << >>

\* The entries of Tree that a walk of root in directory state d reaches,
\* whose name ends in ".tmpl" and whose path contains the marker m.
MatchIdx(root, d, m) ==
    { i \in 1..Len(Tree) :
        /\ Reached(d, i)
        /\ Ext(Base(Tree[i].rel)) = TmplExt
        /\ Contains(Join(root, Tree[i].rel), m) }

\* The number of paths matching the markers before the k-th.
RECURSIVE Offset(_, _, _, _)
Offset(root, ds, ms, k) ==
    IF k <= 1 THEN 0
    ELSE Offset(root, ds, ms, k - 1)
         + Cardinality(MatchIdx(root, ds[k - 1], ms[k - 1]))

\* C14: after a successful discovery pass (and until the next pass stores
\* its list) Partials holds, marker after marker in the order of the markers,
\* the paths containing the marker in the order of the walk, and nothing
\* else (what Partials held before is gone); a path occurs once for every
\* marker of the list it contains.
C14_PartialsIsConcatenation ==
    (lastLoad.markers # << >> /\ ~lastLoad.err /\ ~Assigning) =>
        LET ms == lastLoad.markers
            ds == lastLoad.disks
            P == Elements(Partials)
            M(k) == MatchIdx(TemplateDir, ds[k], ms[k])
        IN /\ Partials.len <= Len(Partials.arr)
           /\ Len(P) = Offset(TemplateDir, ds, ms, Len(ms) + 1)
           /\ \A k \in 1..Len(ms) : \A i \in M(k) :
                 P[Offset(TemplateDir, ds, ms, k)
                   + Cardinality({j \in M(k) : j <= i})]
                    = Join(TemplateDir, Tree[i].rel)
           /\ \A p \in Range(P) :
                 Cardinality({x \in 1..Len(P) : P[x] = p})
                    = Cardinality({k \in 1..Len(ms) :
                         \E i \in M(k) : Join(TemplateDir, Tree[i].rel) = p})

\* Two passes were made on the unchanged directory "tpl", the last with the
\* markers "partial" and ".partial": Partials holds the two partials once
\* for each marker, four paths and not more.
C14_Witness ==
    /\ nops = 2 /\ disk = DiskOk /\ TemplateDir = D_tpl /\ ~Loading
    /\ lastLoad.markers = <<S_partial, Dot \o S_partial>> /\ ~lastLoad.err
    /\ Partials
          = Header(<< Join(D_tpl, F_aPartial),
                      Join(D_tpl, D_inc \o Slash \o F_ePartial),
                      Join(D_tpl, F_aPartial),
                      Join(D_tpl, D_inc \o Slash \o F_ePartial) >>)

\* A turn of the loop of a call fails exactly when its walk fails; the call
\* then ends at that walk with the error.  No turn of the loop, failed or
\* not, changes Partials.
C15_FailStep ==
    \A c \in Callers :
        (pc[c] = "walk" /\ (Steps(c) \/ load'[c] # load[c])) =>
            /\ Partials' = Partials
            /\ pc'[c] = "done" <=> WalkFails(disk)
            /\ pc'[c] = "done" =>
                  /\ res'[c].st = "walkerr"
                  /\ load'[c] = NoLoad
                  /\ lastLoad'.err
                  /\ lastLoad'.walks = Len(load[c].disks) + 1
                  /\ lastLoad'.walks <= Len(load[c].fileTypes)
            /\ pc'[c] # "done" =>
                  /\ Len(load'[c].disks) = Len(load[c].disks) + 1
                  /\ pc'[c] = "assign" <=> Len(load'[c].disks) = Len(load[c].fileTypes)

\* C15: a call of LoadLayoutsAndPartials in which a walk fails returns the
\* error at that walk, makes no further walk and leaves Partials as it was:
\* none of its steps assigns Partials, whatever the earlier markers had
\* collected.
C15_FailedLoadLeavesPartials == [][C15_FailStep]_vars

\* The last call failed at the walk of its second marker, after its first
\* marker had matched files, and Partials still holds the list of an
\* earlier call, which that first marker alone does not give.
C15_Witness ==
    /\ lastLoad.err /\ lastLoad.walks = 2
    /\ MatchIdx(TemplateDir, lastLoad.disks[1], lastLoad.markers[1]) # {}
    /\ Whole(Partials) /\ Partials.arr # << >>
    /\ Partials.len
          # Cardinality(MatchIdx(TemplateDir, lastLoad.disks[1], lastLoad.markers[1]))

\* Caller c is in a resolution (buildTemplate, buildTemplateFromDisk).
InResolution(c) ==
    pc[c] \in {"flag", "lookup", "read", "parse", "lock", "store", "stored",
               "peek"}

\* A step of the call of c on name n changes no field of the Render but
\* the entry of n; the read of line 151 finds Partials a whole list and
\* gives the build that list, in order, to which the page file of n is
\* added, and the template the build compiles is made of that list.
C16_FrameStep ==
    \A c \in Callers :
        (InResolution(c) /\ Steps(c)) =>
            /\ Partials' = Partials
            /\ TemplateDir' = TemplateDir
            /\ UseCache' = UseCache
            /\ Debug' = Debug
            /\ \A m \in Names \ {t'[c]} :
                  /\ m \in DOMAIN TemplateMap <=> m \in DOMAIN TemplateMap'
                  /\ m \in DOMAIN TemplateMap => TemplateMap'[m] = TemplateMap[m]
            /\ pc[c] = "read" =>
                  /\ pc'[c] = "parse"
                  /\ Whole(Partials)
                  /\ templateSlice'[c]
                        = Partials.arr \o << JoinedPath[TemplateDir][t[c]] >>
            /\ (pc[c] = "parse" /\ pc'[c] = "lock") =>
                  tmpl'[c].files = templateSlice[c]

\* C16: a resolution of n, successful or not, changes nothing of the
\* Render except possibly TemplateMap[n] (Partials, TemplateDir, UseCache,
\* Debug and the entries of the other names stay), and every build uses the
\* whole of Partials, in order, followed by the one path
\* join(TemplateDir, n).
C16_ResolutionTouchesOnlyItsEntry == [][C16_FrameStep]_vars

\* The discovery has given Partials the layout; both names are cached, each
\* entry made of the layout and then the page file of its name, and the
\* build and the store of the second have left the entry of the first.
C16_Witness ==
    /\ Whole(Partials) /\ Partials.arr # << >>
    /\ DOMAIN TemplateMap = Names
    /\ \A n \in Names :
          TemplateMap[n].files
             = Partials.arr \o << JoinedPath[TemplateDir][n] >>
    /\ \E n \in Names : TemplateMap[n].id = 1
    /\ \E c \in Callers : pc[c] = "stored" /\ tmpl[c].id = 2

\* C17: when two concurrent resolutions of one uncached name have both
\* built and stored it and have finished, each has received a template (the
\* one it built, so the two differ), and the cache entry is one of the two:
\* that of the later store, which the other caller did not receive.
C17_BothReceiveOwnLastWins ==
    \A c, d \in Callers :
        (/\ c # d /\ nops = 3 /\ ~everUncached
         /\ pc[c] = "done" /\ pc[d] = "done"
         /\ t[c] = t[d] /\ stores[t[c]] = 2)
        => /\ ResolvedOk(res[c]) /\ ResolvedOk(res[d])
           /\ (op[c] = "GetTemplate" /\ op[d] = "GetTemplate") =>
                 /\ res[c].tmpl \in produced /\ res[d].tmpl \in produced
                 /\ res[c].tmpl # res[d].tmpl
                 /\ TemplateMap[t[c]] \in {res[c].tmpl, res[d].tmpl}

\* At most one caller, of whichever Render, is inside a cache write, and
\* it holds mapLock.
OneWriter ==
    /\ Cardinality({c \in Callers : InWrite(c)}) <= 1
    /\ \A c \in Callers : InWrite(c) => mapLock = c

\* A lookup of n by a call on B, made with UseCache true while A's cache
\* holds n, is served from A's entry and builds nothing.
C12_SharedSlotStep ==
    \A c \in Callers :
        (/\ pc[c] = "lookup" /\ Steps(c) /\ ren[c] = "B"
         /\ UseCache /\ t[c] \in DOMAIN TemplateMap)
        => /\ pc'[c] = "done"
           /\ builds' = builds
           /\ op'[c] = "GetTemplate" => res'[c].tmpl = TemplateMap[t[c]]

\* C12 as claimed: a cache write by one Render excludes a cache write by
\* the other, and once A has cached n a resolution of n by B with UseCache
\* true is served from that cache slot.
C12_SharedLockSharedSlot == []OneWriter /\ [][C12_SharedSlotStep]_vars

\* A lookup by a call on a Render hits exactly when UseCache is true and
\* the name is in the TemplateMap of that Render, and returns the entry of
\* that map; a store writes the TemplateMap of the call's Render and leaves
\* the other map as it is.
C12_OwnSlotStep ==
    \A c \in Callers :
        /\ (pc[c] = "lookup" /\ Steps(c) /\ ren[c] = "B") =>
              /\ pc'[c] = "done" <=> (UseCache /\ t[c] \in DOMAIN TemplateMapB)
              /\ (pc'[c] = "done" /\ op'[c] = "GetTemplate")
                    => res'[c].tmpl = TemplateMapB[t[c]]
        /\ (pc[c] = "lookup" /\ Steps(c) /\ ren[c] = "A") =>
              /\ pc'[c] = "done" <=> (UseCache /\ t[c] \in DOMAIN TemplateMap)
              /\ (pc'[c] = "done" /\ op'[c] = "GetTemplate")
                    => res'[c].tmpl = TemplateMap[t[c]]
        /\ (pc[c] = "store" /\ Steps(c) /\ ren[c] = "B") =>
              /\ TemplateMap' = TemplateMap
              /\ TemplateMapB'[t[c]] = tmpl[c]
        /\ (pc[c] = "store" /\ Steps(c) /\ ren[c] = "A") =>
              /\ TemplateMapB' = TemplateMapB
              /\ TemplateMap'[t[c]] = tmpl[c]

\* C12 as amended: the lock is shared by the two Renders, so their cache
\* writes exclude one another, but each Render looks names up in, and
\* stores them to, its own TemplateMap: what A has cached is not served
\* to B.
C12_SharedLockOwnCache == []OneWriter /\ [][C12_OwnSlotStep]_vars

\* A cached about.page.tmpl, then B resolved the same name with UseCache
\* true: B made a build of its own and got the template of that build, which
\* is in B's map and is not A's entry.
C12_Witness ==
    /\ nops = 2 /\ builds = 2 /\ UseCache /\ ~crashed
    /\ F_about \in DOMAIN TemplateMap /\ F_about \in DOMAIN TemplateMapB
    /\ TemplateMap[F_about].id = 1 /\ TemplateMapB[F_about].id = 2
    /\ \E c \in Callers :
          /\ pc[c] = "done" /\ ren[c] = "B" /\ t[c] = F_about
          /\ op[c] = "GetTemplate" /\ res[c].st = "ok"
          /\ res[c].tmpl = TemplateMapB[F_about]
          /\ res[c].tmpl # TemplateMap[F_about]

\* mapLock is held exactly while its holder is in the assignment of line
\* 169, and by no caller that has returned.
LockOnlyInWrite ==
    /\ mapLock # 0 => InWrite(mapLock)
    /\ \A c \in Callers : InWrite(c) => mapLock = c
    /\ \A c \in Callers : Free(c) => mapLock # c

\* C18: mapLock is held only during the assignment of the cache entry and
\* by no caller that has returned, and under fair scheduling every
\* resolution that was started finishes.
C18_LockReleasedAllFinish ==
    /\ []LockOnlyInWrite
    /\ \A c \in Callers : (pc[c] = "flag") ~> Free(c)

====
